---- MODULE Spec2Model ----
(***************************************************************************)
(* Model of the notebook MIRI_JWST_NGC7469_Report.ipynb.                   *)
(*                                                                         *)
(* Numbers.  Wavelengths are fixed-point integers in units of 0.01 micron  *)
(* (7.7 micron is 770), fluxes are fixed-point integers in units of 0.01.  *)
(* A float is a record [nan, v]: nan = TRUE is numpy's NaN (the missing    *)
(* marker), otherwise v is the value.  Comparisons follow IEEE 754: every  *)
(* ordered comparison with a NaN operand is FALSE.  Binary rounding of the *)
(* floats is not modelled.  The em dash U+2014 of the source is written    *)
(* "--" here, because the module is ASCII.                                 *)
(***************************************************************************)
EXTENDS Integers, Sequences, FiniteSets, TLC

VARIABLES
    \* emission line summary cell: the two tables, the number of catalog
    \* lines done, the fluxes of the last iteration, the rows, the table
    \* written, the position
    df1, df2, li, f1, f2, rows, line_table, tpc,
    \* overlay plot cell: the Wavelength column, the number of catalog lines
    \* done, the vertical lines and the texts drawn, the position
    wavelengths, pli, vlines, texts, ppc,
    \* pixel scale cell: the SCI header's CDELT1, the redshift (in steps of
    \* ZStep), cdelt1, scale, pix_scale_pc, the position
    hdr, zn, cdelt1, scale, pix_scale_pc, spc,
    \* extract_spectrum_from_region: its `mask` (of the region), the loop index,
    \* the slice read last, the values appended, the position
    region_mask, lam, flux_slice, extracted_flux, epc,
    \* the notebook session: the names the kernel holds, the cell running
    \* (0: none) and its next statement, the outcome of each cell's last
    \* run, the cell run last
    ns, running, stmt, outcome, last

tabVars == <<df1, df2, li, f1, f2, rows, line_table, tpc>>
plotVars == <<wavelengths, pli, vlines, texts, ppc>>
scaleVars == <<hdr, zn, cdelt1, scale, pix_scale_pc, spc>>
extractVars == <<region_mask, lam, flux_slice, extracted_flux, epc>>
sessionVars == <<ns, running, stmt, outcome, last>>
vars == <<tabVars, plotVars, scaleVars, extractVars, sessionVars>>

(***************************************************************************)
(* Floats                                                                  *)
(***************************************************************************)
NaN == [nan |-> TRUE, v |-> 0]
Num(x) == [nan |-> FALSE, v |-> x]
IsNan(a) == a.nan
Abs(x) == IF x < 0 THEN -x ELSE x

\* a comparison that orders NaN below every number
GtNanLowest(a, b) == ~a.nan /\ (b.nan \/ a.v > b.v)

\* a > b on floats
Gt(a, b) == ~a.nan /\ ~b.nan /\ a.v > b.v
\* a < b on floats
Lt(a, b) == ~a.nan /\ ~b.nan /\ a.v < b.v

(***************************************************************************)
(* Each part of the notebook is checked in a run of its own; the parts     *)
(* that are not run keep these values.                                     *)
(***************************************************************************)
TabOff ==
    /\ df1 = <<>>
    /\ df2 = <<>>
    /\ li = 0
    /\ f1 = NaN
    /\ f2 = NaN
    /\ rows = <<>>
    /\ line_table = <<>>
    /\ tpc = "off"

PlotOff ==
    /\ wavelengths = <<>>
    /\ pli = 0
    /\ vlines = <<>>
    /\ texts = <<>>
    /\ ppc = "off"

ScaleOff ==
    /\ hdr = [present |-> FALSE, v |-> 0]
    /\ zn = 0
    /\ cdelt1 = 0
    /\ scale = 0
    /\ pix_scale_pc = 0
    /\ spc = "off"

ExtractOff ==
    /\ region_mask = [ixmin |-> 0, iymin |-> 0, nx |-> 1, ny |-> 1, inside |-> {}]
    /\ lam = 0
    /\ flux_slice = <<>>
    /\ extracted_flux = <<>>
    /\ epc = "off"

\* the code cells, by their position in the notebook
CellIds == {3, 5, 7, 9, 11}

\* a fresh kernel
SessionInit ==
    /\ ns = {}
    /\ running = 0
    /\ stmt = 0
    /\ outcome = [c \in CellIds |-> "never"]
    /\ last = 0

SessionOff == SessionInit

(***************************************************************************)
(* The line catalog `lines`, a dict in insertion order.                    *)
(***************************************************************************)
lines ==
    << [name |-> "PAH 6.2",        wl |-> 620],
       [name |-> "PAH 7.7",        wl |-> 770],
       [name |-> "PAH 8.6",        wl |-> 860],
       [name |-> "[S IV] 10.51",   wl |-> 1051],
       [name |-> "PAH 11.3",       wl |-> 1130],
       [name |-> "[Ne II] 12.81",  wl |-> 1281],
       [name |-> "[Ne V] 14.32",   wl |-> 1432],
       [name |-> "[Ne III] 15.55", wl |-> 1555],
       [name |-> "[S III] 18.71",  wl |-> 1871],
       [name |-> "[Ne V] 24.31",   wl |-> 2431],
       [name |-> "[O IV] 25.89",   wl |-> 2589],
       [name |-> "[S III] 33.48",  wl |-> 3348] >>

\* default tolerance of detect_flux, 0.1 micron
Tol == 10

(***************************************************************************)
(* Bounds and sampled inputs of the tabulation stage                       *)
(***************************************************************************)
MaxRows == 2

\* table wavelengths: both ends of the window of "PAH 7.7" and their inner
\* neighbours
TabWavelengths == {770 - Tol, 770 - Tol + 1, 770 + Tol - 1, 770 + Tol}
\* table fluxes: -1.50, 4.50 and a missing value
TabFluxes == {NaN, Num(-150), Num(450)}

\* a table is a sequence of rows in increasing wavelength (slice order)
TableRows == [wl : TabWavelengths, flux : TabFluxes]
Tables ==
    UNION { { t \in [1..n -> TableRows] :
                \A i \in 1..n, j \in 1..n : i < j => t[i].wl < t[j].wl }
            : n \in 0..MaxRows }

(***************************************************************************)
(* detect_flux                                                             *)
(***************************************************************************)
\* the window with its ends included
WlMaskInclusive(df, wavelength, tol) ==
    [i \in 1..Len(df) |-> (df[i].wl >= wavelength - tol) /\ (df[i].wl <= wavelength + tol)]

\* the boolean Series `mask`
WlMask(df, wavelength, tol) ==
    [i \in 1..Len(df) |-> (df[i].wl > wavelength - tol) /\ (df[i].wl < wavelength + tol)]

\* mask.any()
MaskAny(mask) == \E i \in 1..Len(mask) : mask[i]

\* df['Flux'][mask]
RECURSIVE FluxWhere(_, _)
FluxWhere(df, mask) ==
    IF df = <<>> THEN <<>>
    ELSE (IF Head(mask) THEN <<Head(df).flux>> ELSE <<>>)
         \o FluxWhere(Tail(df), Tail(mask))

\* a maximum that propagates NaN, as numpy's max does
RECURSIVE SeriesMaxPropagate(_)
SeriesMaxPropagate(s) ==
    IF s = <<>> THEN NaN
    ELSE LET h == Head(s)
             r == SeriesMaxPropagate(Tail(s))
         IN  IF h.nan THEN NaN
             ELSE IF Len(s) = 1 THEN h
             ELSE IF r.nan THEN NaN
             ELSE IF h.v > r.v THEN h ELSE r

\* Series.max(): NaN entries are skipped, NaN when nothing is left
RECURSIVE SeriesMax(_)
SeriesMax(s) ==
    IF s = <<>> THEN NaN
    ELSE LET h == Head(s)
             r == SeriesMax(Tail(s))
         IN  IF h.nan THEN r
             ELSE IF r.nan THEN h
             ELSE IF h.v > r.v THEN h ELSE r

detect_flux(df, wavelength, tol) ==
    LET mask == WlMask(df, wavelength, tol)
    IN  IF MaskAny(mask) THEN SeriesMax(FluxWhere(df, mask)) ELSE NaN

(***************************************************************************)
(* Row formatting                                                          *)
(***************************************************************************)
EmDash == <<"--">>

Digit(d) == <<"0", "1", "2", "3", "4", "5", "6", "7", "8", "9">>[d + 1]

RECURSIVE DecDigits(_)
DecDigits(n) ==
    IF n < 10 THEN <<Digit(n)>>
    ELSE Append(DecDigits(n \div 10), Digit(n % 10))

\* f"{x:.2f}", as a sequence of characters
Fmt2f(x) ==
    IF x.nan THEN <<"n", "a", "n">>
    ELSE LET a == Abs(x.v)
         IN  (IF x.v < 0 THEN <<"-">> ELSE <<>>)
             \o DecDigits(a \div 100)
             \o <<".", Digit((a \div 10) % 10), Digit(a % 10)>>

\* the field without the np.isnan test
FluxFieldUnguarded(f) == Fmt2f(f)

\* f"{f:.2f}" if not np.isnan(f) else "--"
FluxField(f) == IF ~IsNan(f) THEN Fmt2f(f) ELSE EmDash

StrongerIn(a, b) ==
    IF Gt(a, b) THEN "Region 1"
    ELSE IF Gt(b, a) THEN "Region 2"
    ELSE "Equal/--"

MakeRow(name, wl, a, b) ==
    [Line |-> name, Wavelength |-> wl,
     Region1Flux |-> FluxField(a), Region2Flux |-> FluxField(b),
     StrongerIn |-> StrongerIn(a, b)]

\* an append that drops the row of a line detected in neither table
RowsAppendDetected(rs, name, wl, a, b) ==
    IF a.nan /\ b.nan THEN rs ELSE Append(rs, MakeRow(name, wl, a, b))

\* rows.append(row)
RowsAppend(rs, name, wl, a, b) == Append(rs, MakeRow(name, wl, a, b))

(***************************************************************************)
(* The emission line summary cell                                          *)
(***************************************************************************)
TabInit ==
    /\ df1 \in Tables
    /\ df2 \in Tables
    /\ li = 0
    /\ f1 = NaN
    /\ f2 = NaN
    /\ rows = <<>>
    /\ line_table = <<>>
    /\ tpc = "loop"

\* one iteration of `for name, wl in lines.items()`
LineIteration ==
    /\ tpc = "loop"
    /\ li < Len(lines)
    /\ LET name == lines[li + 1].name
           wl   == lines[li + 1].wl
           a    == detect_flux(df1, wl, Tol)
           b    == detect_flux(df2, wl, Tol)
       IN  /\ f1' = a
           /\ f2' = b
           /\ rows' = RowsAppend(rows, name, wl, a, b)
    /\ li' = li + 1
    /\ UNCHANGED <<df1, df2, line_table, tpc>>
    /\ UNCHANGED <<plotVars, scaleVars, extractVars, sessionVars>>

\* line_table = pd.DataFrame(rows); line_table.to_csv(...)
WriteSummary ==
    /\ tpc = "loop"
    /\ li = Len(lines)
    /\ line_table' = rows
    /\ tpc' = "done"
    /\ UNCHANGED <<df1, df2, li, f1, f2, rows>>
    /\ UNCHANGED <<plotVars, scaleVars, extractVars, sessionVars>>

TabNext == LineIteration \/ WriteSummary

(***************************************************************************)
(* The overlay plot cell                                                   *)
(***************************************************************************)
MaxPlotRows == 3

\* table wavelengths around the catalog lines "PAH 6.2" and "PAH 8.6"
PlotWavelengths == {619, 620, 860, 861}
\* the Wavelength column: any order, the file decides
WavelengthColumns ==
    UNION { [1..n -> {Num(w) : w \in PlotWavelengths}] : n \in 0..MaxPlotRows }

\* Series.min(): NaN entries are skipped, NaN when nothing is left
RECURSIVE SeriesMin(_)
SeriesMin(s) ==
    IF s = <<>> THEN NaN
    ELSE LET h == Head(s)
             r == SeriesMin(Tail(s))
         IN  IF h.nan THEN r
             ELSE IF r.nan THEN h
             ELSE IF h.v < r.v THEN h ELSE r

\* a test on the closed range
InRangeInclusive(col, wl) ==
    LET lo == SeriesMin(col)
        hi == SeriesMax(col)
    IN  ~lo.nan /\ ~hi.nan /\ lo.v <= wl /\ wl <= hi.v

\* wavelengths.min() < wl < wavelengths.max()
InRange(col, wl) ==
    Lt(SeriesMin(col), Num(wl)) /\ Lt(Num(wl), SeriesMax(col))

\* df = pd.read_csv(...); wavelengths = df['Wavelength [micron]']; the figure
PlotInit ==
    /\ wavelengths \in WavelengthColumns
    /\ pli = 0
    /\ vlines = <<>>
    /\ texts = <<>>
    /\ ppc = "loop"

\* one iteration of `for name, wl in lines.items()`; the height of the
\* label, max(flux)*0.8, is not modelled
OverlayIteration ==
    /\ ppc = "loop"
    /\ pli < Len(lines)
    /\ LET name == lines[pli + 1].name
           wl   == lines[pli + 1].wl
       IN  IF InRange(wavelengths, wl)
           THEN /\ vlines' = Append(vlines, wl)
                /\ texts' = Append(texts, [x |-> wl, s |-> name])
           ELSE UNCHANGED <<vlines, texts>>
    /\ pli' = pli + 1
    /\ UNCHANGED <<wavelengths, ppc>>
    /\ UNCHANGED <<tabVars, scaleVars, extractVars, sessionVars>>

\* the axis labels, the title, the grid and plt.show()
PlotShow ==
    /\ ppc = "loop"
    /\ pli = Len(lines)
    /\ ppc' = "done"
    /\ UNCHANGED <<wavelengths, pli, vlines, texts>>
    /\ UNCHANGED <<tabVars, scaleVars, extractVars, sessionVars>>

PlotNext == OverlayIteration \/ PlotShow

\* the overlay plot cell on any table
InitPlot == TabOff /\ PlotInit /\ ScaleOff /\ ExtractOff /\ SessionOff
SpecPlot == InitPlot /\ [][PlotNext]_vars

\* the vertical lines drawn at x
LinesAt(x) == {k \in 1..Len(vlines) : vlines[k] = x}
\* x lies strictly between two wavelengths of the table
StrictlyInside(x) ==
    \E i, j \in 1..Len(wavelengths) : wavelengths[i].v < x /\ x < wavelengths[j].v

\* C7: a catalog line gets a vertical marker and a label if and only if
\* min(table wavelengths) < wl < max(table wavelengths): exactly one when it
\* is strictly inside, none at the minimum, at the maximum or outside.
C7_OverlayMarkers ==
    /\ Len(texts) = Len(vlines)
    /\ \A k \in 1..Len(vlines) :
         \E i \in 1..pli :
            lines[i].wl = vlines[k] /\ texts[k] = [x |-> lines[i].wl, s |-> lines[i].name]
    /\ \A i \in 1..pli :
         Cardinality(LinesAt(lines[i].wl)) = IF StrictlyInside(lines[i].wl) THEN 1 ELSE 0

\* C7 witness: the table runs from 6.2 to 8.6 micron, both catalog
\* wavelengths; the plot is shown with the one marker of "PAH 7.7".
C7_Witness ==
    /\ ppc = "done"
    /\ SeriesMin(wavelengths) = Num(620)
    /\ SeriesMax(wavelengths) = Num(860)
    /\ vlines = <<770>>
    /\ texts = << [x |-> 770, s |-> "PAH 7.7"] >>

(***************************************************************************)
(* The pixel scale cell.  CDELT1 is in units of 1e-5 degree, cdelt1 in     *)
(* 1e-5 arcsec, scale in pc/arcsec, pix_scale_pc in 1e-5 pc.  The redshift *)
(* is zn * ZStep in units of 1e-4; the notebook's z = 0.0163 is zn = 1.    *)
(***************************************************************************)
MaxStep == 4
MaxZ == 3

\* z = 0.0163
ZStep == 163
\* Planck18: Om0 = 0.30966 (in 1e-4), c/H0 = 299792.458/67.66 Mpc
Om0 == 3097
HubbleDistanceMpc == 4431
\* parsecs per arcsecond at 1 Mpc, in 1e-3: 1e6 * pi/648000 = 4.848
PcPerArcsecPerMpc == 4848

\* SCI headers: CDELT1 absent, or a step (the sign is the axis direction)
Headers ==
    {[present |-> FALSE, v |-> 0]}
      \cup {[present |-> TRUE, v |-> c] : c \in (-MaxStep..MaxStep) \ {0}}

\* the step taken with its sign
Cdelt1Signed(c) == c * 3600

\* abs(hdr['CDELT1']) * 3600
Cdelt1Arcsec(c) == Abs(c) * 3600

ISqrt(n) == CHOOSE r \in 0..n : r * r <= n /\ (r + 1) * (r + 1) > n

\* 1 + z, in 1e-4
OnePlusZ(n) == 10000 + ZStep * n

\* the flat LambdaCDM E(z) = sqrt(Om0 (1+z)^3 + 1 - Om0), in 1e-2
Efunc(n) ==
    LET a  == OnePlusZ(n)
        a3 == (((a * a) \div 10000) * a) \div 10000
    IN  ISqrt((Om0 * a3) \div 10000 + (10000 - Om0))

\* 1/E(z), in 1e-4
InvEfunc(n) == 1000000 \div Efunc(n)

\* the line-of-sight comoving distance (c/H0) * integral of dz/E(z) from 0
\* to z, by the trapezoid rule on the steps of z, in 0.1 Mpc
RECURSIVE ComovingDistance(_)
ComovingDistance(n) ==
    IF n = 0 THEN 0
    ELSE ComovingDistance(n - 1)
         + (((HubbleDistanceMpc * ZStep) \div 100) * (InvEfunc(n - 1) + InvEfunc(n)))
              \div 200000

\* D_A = D_M / (1 + z), in 0.1 Mpc
AngularDiameterDistance(n) == (ComovingDistance(n) * 10000) \div OnePlusZ(n)

\* cosmo.kpc_proper_per_arcmin(z).to(u.pc/u.arcsec), in pc/arcsec
PcPerArcsec(n) == (AngularDiameterDistance(n) * PcPerArcsecPerMpc) \div 10000

ScaleInit ==
    /\ hdr \in Headers
    /\ zn \in 0..MaxZ
    /\ cdelt1 = 0
    /\ scale = 0
    /\ pix_scale_pc = 0
    /\ spc = "open"

\* with fits.open(filename) as hdul: hdr = ...; cdelt1 = abs(hdr['CDELT1']) * 3600
ReadHeader ==
    /\ spc = "open"
    /\ IF hdr.present
       THEN /\ cdelt1' = Cdelt1Arcsec(hdr.v)
            /\ spc' = "scale"
       ELSE /\ spc' = "KeyError"
            /\ UNCHANGED cdelt1
    /\ UNCHANGED <<hdr, zn, scale, pix_scale_pc>>
    /\ UNCHANGED <<tabVars, plotVars, extractVars, sessionVars>>

\* scale = cosmo.kpc_proper_per_arcmin(z).to(u.pc/u.arcsec)
ComputeScale ==
    /\ spc = "scale"
    /\ scale' = PcPerArcsec(zn)
    /\ spc' = "pix"
    /\ UNCHANGED <<hdr, zn, cdelt1, pix_scale_pc>>
    /\ UNCHANGED <<tabVars, plotVars, extractVars, sessionVars>>

\* pix_scale_pc = cdelt1 * scale, and the two prints
ComputePixScale ==
    /\ spc = "pix"
    /\ pix_scale_pc' = cdelt1 * scale
    /\ spc' = "done"
    /\ UNCHANGED <<hdr, zn, cdelt1, scale>>
    /\ UNCHANGED <<tabVars, plotVars, extractVars, sessionVars>>

ScaleNext == ReadHeader \/ ComputeScale \/ ComputePixScale

\* the pixel scale cell on any header and any redshift z >= 0
InitScale == TabOff /\ PlotOff /\ ScaleInit /\ ExtractOff /\ SessionOff
SpecScale == InitScale /\ [][ScaleNext]_vars

\* C8 as claimed: for any z >= 0, z = 0 included, and any positive pixel
\* step the physical pixel size is strictly positive.
C8_Original ==
    (spc = "done" /\ hdr.v > 0) => pix_scale_pc > 0

\* C8 amended: for any z > 0 and any positive pixel step the physical pixel
\* size is strictly positive, and at z = 0 it is zero; with z fixed it is
\* the absolute value of the header step times the size of a unit step,
\* which depends on z alone.
C8_PixelScale ==
    spc = "done" =>
        /\ (hdr.v > 0 /\ zn > 0) => pix_scale_pc > 0
        /\ zn = 0 => pix_scale_pc = 0
        /\ pix_scale_pc = Abs(hdr.v) * (Cdelt1Arcsec(1) * PcPerArcsec(zn))

\* C8 witness: the notebook's redshift 0.0163 and a step of 4e-5 degree,
\* of either sign, give 0.144 arcsec and 344 pc/arcsec, 49.5 pc.
C8_Witness ==
    /\ spc = "done"
    /\ zn = 1
    /\ hdr.v = -4
    /\ cdelt1 = 14400
    /\ scale = 344
    /\ pix_scale_pc = 4953600

(***************************************************************************)
(* extract_spectrum_from_region.  A pixel is <<x, y>>; a slice of the cube *)
(* maps the pixels of the image to floats.  The RegionMask of the region   *)
(* is its bounding box (ixmin, iymin, nx, ny) and the set `inside` of the  *)
(* box's pixels, relative to its corner, whose centre lies in the shape    *)
(* (mode='center').  RegionMask.cutout of the regions package returns the  *)
(* data over the bounding box, fill_value where the box leaves the image   *)
(* and None when the box and the image do not overlap; it does not apply   *)
(* the mask's weights (RegionMask.multiply and get_values do).  The mean   *)
(* of a slice is the fraction num/den.                                     *)
(***************************************************************************)
ImW == 2
ImH == 2
NSlices == 2
MaxPixel == 2

Pixels == (0..(ImW - 1)) \X (0..(ImH - 1))
PixelValues == {NaN} \cup {Num(k) : k \in 1..MaxPixel}
Slices == [Pixels -> PixelValues]

\* shapes: an aligned rectangle, a triangle that leaves out the far corner
\* of its box, a small circle on a pixel centre, a small circle that holds
\* no pixel centre
MaskShapes ==
    { [nx |-> 2, ny |-> 2, inside |-> {<<0, 0>>, <<1, 0>>, <<0, 1>>, <<1, 1>>}],
      [nx |-> 2, ny |-> 2, inside |-> {<<0, 0>>, <<1, 0>>, <<0, 1>>}],
      [nx |-> 1, ny |-> 1, inside |-> {<<0, 0>>}],
      [nx |-> 1, ny |-> 1, inside |-> {}] }
\* region.to_mask(mode='center') for a region anywhere on or beside the image
Masks ==
    { [ixmin |-> x, iymin |-> y, nx |-> s.nx, ny |-> s.ny, inside |-> s.inside] :
        x \in (-1)..ImW, y \in 0..(ImH - 1), s \in MaskShapes }

NoCutout == [none |-> TRUE, data |-> <<>>]

BoxPixels(m) == (0..(m.nx - 1)) \X (0..(m.ny - 1))
ImagePixel(m, d) == <<m.ixmin + d[1], m.iymin + d[2]>>

\* mask.cutout(flux_slice, fill_value)
Cutout(m, slice, fill_value) ==
    IF \A d \in BoxPixels(m) : ImagePixel(m, d) \notin Pixels
    THEN NoCutout
    ELSE [none |-> FALSE,
          data |-> [d \in BoxPixels(m) |->
                      IF ImagePixel(m, d) \in Pixels
                      THEN slice[ImagePixel(m, d)] ELSE fill_value]]

RECURSIVE SumOver(_, _)
SumOver(arr, D) ==
    IF D = {} THEN 0
    ELSE LET d == CHOOSE e \in D : TRUE
         IN  arr[d].v + SumOver(arr, D \ {d})

NaNMean == [nan |-> TRUE, num |-> 0, den |-> 1]

\* np.nanmean(arr): the mean of the entries that are not NaN, NaN (and a
\* RuntimeWarning) when there is none
NanMean(arr) ==
    LET valid == {d \in DOMAIN arr : ~arr[d].nan}
    IN  IF valid = {} THEN NaNMean
        ELSE [nan |-> FALSE, num |-> SumOver(arr, valid), den |-> Cardinality(valid)]

\* region = Regions.read(...)[0]; mask = region.to_mask(mode='center');
\* extracted_flux = []
ExtractInit ==
    /\ region_mask \in Masks
    /\ lam = 0
    /\ flux_slice = <<>>
    /\ extracted_flux = <<>>
    /\ epc = "loop"

\* one iteration of `for lam in range(data_cube.shape[0])` on the slice
\* data_cube[lam]; np.nanmean(None) raises a TypeError
ExtractSlice ==
    /\ epc = "loop"
    /\ lam < NSlices
    /\ \E s \in Slices :
         LET cutout == Cutout(region_mask, s, NaN)
         IN  /\ flux_slice' = s
             /\ IF cutout.none
                THEN /\ epc' = "TypeError"
                     /\ UNCHANGED <<lam, extracted_flux>>
                ELSE /\ extracted_flux' = Append(extracted_flux, NanMean(cutout.data))
                     /\ lam' = lam + 1
                     /\ UNCHANGED epc
    /\ UNCHANGED region_mask
    /\ UNCHANGED <<tabVars, plotVars, scaleVars, sessionVars>>

\* return np.array(extracted_flux)
ReturnSpectrum ==
    /\ epc = "loop"
    /\ lam = NSlices
    /\ epc' = "done"
    /\ UNCHANGED <<region_mask, lam, flux_slice, extracted_flux>>
    /\ UNCHANGED <<tabVars, plotVars, scaleVars, sessionVars>>

ExtractNext == ExtractSlice \/ ReturnSpectrum

\* extract_spectrum_from_region on any cube and any region
InitExtract == TabOff /\ PlotOff /\ ScaleOff /\ ExtractInit /\ SessionOff
SpecExtract == InitExtract /\ [][ExtractNext]_vars

\* the pixels of the image whose centre lies inside the region's shape
InShape == {p \in Pixels : <<p[1] - region_mask.ixmin, p[2] - region_mask.iymin>> \in region_mask.inside}
\* those of them that hold a value in the slice read last
ValidInShape == {p \in InShape : ~flux_slice[p].nan}
\* the slice read last has been averaged: extracted_flux[lam] is its value
SliceDone == epc \in {"loop", "done"} /\ lam >= 1

\* C3: the value of a slice is the mean over the pixels whose centre lies
\* inside the region that are not missing; pixels outside the shape never
\* contribute, those inside its bounding box included.  A slice that is v
\* everywhere yields v.
C3_MeanOverRegion ==
    SliceDone =>
        LET value == extracted_flux[lam]
        IN  /\ ValidInShape # {} =>
                 /\ ~value.nan
                 /\ value.num * Cardinality(ValidInShape)
                      = value.den * SumOver(flux_slice, ValidInShape)
            /\ \A k \in 1..MaxPixel :
                 (\A p \in Pixels : flux_slice[p] = Num(k))
                   => (~value.nan /\ value.num = k * value.den)

\* C4: the function returns one entry per slice, in slice order, and never
\* fails; the entry of a slice with no valid pixel inside the region is the
\* missing marker.
C4_OneEntryPerSlice ==
    /\ epc # "TypeError"
    /\ Len(extracted_flux) = lam
    /\ epc = "done" => Len(extracted_flux) = NSlices
    /\ (SliceDone /\ ValidInShape = {}) => extracted_flux[lam].nan

(***************************************************************************)
(* The notebook session.  A cell is the sequence of its statements; a      *)
(* statement reads the names `uses` from the kernel's namespace and binds  *)
(* the names `defs`.  A statement that reads an unbound name raises a      *)
(* NameError, which ends the cell; what the cell bound before stays bound. *)
(* The input files exist.  The body of a def is not run by the def.        *)
(***************************************************************************)
S(uses, defs) == [uses |-> uses, defs |-> defs]

PixelScaleCell ==
    << S({}, {"fits"}), S({}, {"cosmo"}), S({}, {"u"}),
       S({}, {"z"}), S({}, {"filename"}),
       S({"fits", "filename"}, {"hdul", "hdr", "cdelt1"}),
       S({"cosmo", "z", "u"}, {"scale"}),
       S({"cdelt1", "scale"}, {"pix_scale_pc"}),
       S({"cdelt1"}, {}), S({"pix_scale_pc"}, {}) >>

ExtractCell ==
    << S({}, {"np"}), S({}, {"pd"}), S({}, {"WCS"}), S({}, {"Regions"}),
       S({}, {"extract_spectrum_from_region"}) >>

PlotCell ==
    << S({}, {"plt"}),
       S({"pd"}, {"df"}),
       S({"df"}, {"wavelengths"}),
       S({"df"}, {"flux"}),
       S({}, {"lines"}),
       S({"plt"}, {}),
       S({"plt", "wavelengths", "flux"}, {}),
       S({"lines", "wavelengths", "plt", "flux"}, {"name", "wl"}),
       S({"plt"}, {}) >>

CompareCell ==
    << S({"pd"}, {"df1"}),
       S({"pd"}, {"df2"}),
       S({"plt"}, {}),
       S({"plt", "df1"}, {}),
       S({"plt", "df2"}, {}),
       S({"plt"}, {}) >>

\* the summary cell with its own imports, catalog and tables
SummaryCellSelfContained ==
    << S({}, {"np"}), S({}, {"pd"}), S({}, {"lines"}),
       S({"pd"}, {"df1"}), S({"pd"}, {"df2"}),
       S({}, {"detect_flux"}),
       S({}, {"rows"}),
       S({"lines"}, {"name", "wl"}),
       S({"detect_flux", "df1", "wl"}, {"f1"}),
       S({"detect_flux", "df2", "wl"}, {"f2"}),
       S({"name", "wl", "f1", "f2", "np"}, {"row"}),
       S({"rows", "row"}, {}),
       S({"pd", "rows"}, {"line_table"}),
       S({"line_table"}, {}) >>

\* def detect_flux; rows = []; the loop (its body once: for, f1, f2, row,
\* append); line_table; to_csv and the display.  np is read by the row's
\* np.isnan in every iteration, and by detect_flux only for an empty window
SummaryCell ==
    << S({}, {"detect_flux"}),
       S({}, {"rows"}),
       S({"lines"}, {"name", "wl"}),
       S({"detect_flux", "df1", "wl"}, {"f1"}),
       S({"detect_flux", "df2", "wl"}, {"f2"}),
       S({"name", "wl", "f1", "f2", "np"}, {"row"}),
       S({"rows", "row"}, {}),
       S({"pd", "rows"}, {"line_table"}),
       S({"line_table"}, {}) >>

Cell(c) ==
    CASE c = 3 -> PixelScaleCell
      [] c = 5 -> ExtractCell
      [] c = 7 -> PlotCell
      [] c = 9 -> CompareCell
      [] c = 11 -> SummaryCell

\* the user runs a cell, any cell
RunCell(c) ==
    /\ running = 0
    /\ running' = c
    /\ stmt' = 1
    /\ UNCHANGED <<ns, outcome, last>>
    /\ UNCHANGED <<tabVars, plotVars, scaleVars, extractVars>>

\* the next statement of the running cell
ExecStatement ==
    /\ running # 0
    /\ stmt <= Len(Cell(running))
    /\ Cell(running)[stmt].uses \subseteq ns
    /\ ns' = ns \cup Cell(running)[stmt].defs
    /\ stmt' = stmt + 1
    /\ UNCHANGED <<running, outcome, last>>
    /\ UNCHANGED <<tabVars, plotVars, scaleVars, extractVars>>

\* the next statement reads a name the kernel does not hold
RaiseNameError ==
    /\ running # 0
    /\ stmt <= Len(Cell(running))
    /\ ~(Cell(running)[stmt].uses \subseteq ns)
    /\ outcome' = [outcome EXCEPT ![running] = "error"]
    /\ last' = running
    /\ running' = 0
    /\ stmt' = 0
    /\ UNCHANGED ns
    /\ UNCHANGED <<tabVars, plotVars, scaleVars, extractVars>>

\* the cell ran to its end
FinishCell ==
    /\ running # 0
    /\ stmt > Len(Cell(running))
    /\ outcome' = [outcome EXCEPT ![running] = "ok"]
    /\ last' = running
    /\ running' = 0
    /\ stmt' = 0
    /\ UNCHANGED ns
    /\ UNCHANGED <<tabVars, plotVars, scaleVars, extractVars>>

SessionNext ==
    \/ \E c \in CellIds : RunCell(c)
    \/ ExecStatement
    \/ RaiseNameError
    \/ FinishCell

\* cells run one at a time, in any order, any number of times
InitSession == TabOff /\ PlotOff /\ ScaleOff /\ ExtractOff /\ SessionInit
SpecSession == InitSession /\ [][SessionNext]_vars

\* the cells of the four stages: pixel scale, extractor, overlay, tabulator
StageCells == {3, 5, 7, 11}

\* C9 as claimed: each of the four stages can be run on its own, in any
\* order and without any other cell having run: its run never fails.
C9_Original == \A c \in StageCells : outcome[c] # "error"

\* the names a cell reads that it does not bind itself
Needs(c) ==
    CASE c = 3 -> {}
      [] c = 5 -> {}
      [] c = 7 -> {"pd"}
      [] c = 9 -> {"pd", "plt"}
      [] c = 11 -> {"np", "pd", "lines", "df1", "df2"}

\* C9 amended: the pixel scale cell and the extractor cell can be run on
\* their own, in any order.  Every cell succeeds exactly when the session
\* already holds the names it reads and does not bind: pd for the overlay
\* cell, pd and plt for the comparison cell, and np, pd, lines, df1 and df2
\* for the tabulation cell, which therefore succeeds only after the
\* extractor cell and the overlay cell have succeeded and the comparison
\* cell has run.
C9_StageDependencies ==
    /\ outcome[3] # "error"
    /\ outcome[5] # "error"
    /\ \A c \in CellIds :
         (running = 0 /\ last = c) => ((outcome[c] = "ok") <=> (Needs(c) \subseteq ns))
    /\ (running = 0 /\ outcome[11] = "ok") =>
         (outcome[5] = "ok" /\ outcome[7] = "ok" /\ outcome[9] # "never")

\* C9 witness: the tabulation cell has just succeeded, run after the
\* extractor, overlay and comparison cells and without the pixel scale cell.
C9_Witness ==
    /\ running = 0
    /\ last = 11
    /\ outcome[11] = "ok"
    /\ outcome[3] = "never"

\* the emission line summary cell on any two tables
Init == TabInit /\ PlotOff /\ ScaleOff /\ ExtractOff /\ SessionOff
Spec == Init /\ [][TabNext]_vars

(***************************************************************************)
(* Properties of the tabulation stage.  After an iteration, li is the      *)
(* number of the catalog line just tabulated, f1 and f2 are the fluxes it  *)
(* detected and rows[li] is the row it appended.                           *)
(***************************************************************************)
\* rows of df with wavelength strictly inside (w - Tol, w + Tol)
InWindow(df, w) == {i \in 1..Len(df) : w - Tol < df[i].wl /\ df[i].wl < w + Tol}
\* rows of the window whose flux is not missing
ValidInWindow(df, w) == {i \in InWindow(df, w) : ~df[i].flux.nan}

DigitChars == {"0", "1", "2", "3", "4", "5", "6", "7", "8", "9"}
DigitVal(c) ==
    CASE c = "0" -> 0 [] c = "1" -> 1 [] c = "2" -> 2 [] c = "3" -> 3
      [] c = "4" -> 4 [] c = "5" -> 5 [] c = "6" -> 6 [] c = "7" -> 7
      [] c = "8" -> 8 [] c = "9" -> 9
RECURSIVE DigitsVal(_)
DigitsVal(s) ==
    IF s = <<>> THEN 0
    ELSE 10 * DigitsVal(SubSeq(s, 1, Len(s) - 1)) + DigitVal(s[Len(s)])
Unsigned(s) == IF s # <<>> /\ s[1] = "-" THEN Tail(s) ELSE s
\* s is an optional sign, one or more digits, a point and exactly two digits
IsFixed2(s) ==
    LET u == Unsigned(s)
    IN  /\ Len(u) >= 4
        /\ u[Len(u) - 2] = "."
        /\ \A i \in 1..Len(u) : i # Len(u) - 2 => u[i] \in DigitChars
\* the value of such a string, in hundredths
ParseFixed2(s) ==
    LET u == Unsigned(s)
        n == 100 * DigitsVal(SubSeq(u, 1, Len(u) - 3))
               + DigitsVal(SubSeq(u, Len(u) - 1, Len(u)))
    IN  IF u # s THEN -n ELSE n

\* C1: the "Stronger In" field of a row is "Region 1" exactly when both
\* detected fluxes are present and f1 > f2, "Region 2" exactly when both are
\* present and f2 > f1, and "Equal/--" in every other case (equality, or
\* either flux missing, whatever the other flux is).
C1_StrongerIn ==
    li >= 1 =>
        LET s    == rows[li].StrongerIn
            both == ~f1.nan /\ ~f2.nan
        IN  /\ (s = "Region 1") <=> (both /\ f1.v > f2.v)
            /\ (s = "Region 2") <=> (both /\ f2.v > f1.v)
            /\ (s = "Equal/--") <=> ~(both /\ f1.v # f2.v)
            /\ s \in {"Region 1", "Region 2", "Equal/--"}

\* C1 witness: the first flux is missing, the second is a real number, and
\* the row is classified "Equal/--".
C1_Witness ==
    /\ li >= 1
    /\ f1.nan
    /\ ~f2.nan
    /\ rows[li].StrongerIn = "Equal/--"

\* the result f of detect_flux(df, w) is what the claim C2 says
DetectedAsSpecified(df, w, f) ==
    LET Sel == InWindow(df, w)
    IN  /\ Sel = {} => f.nan
        /\ Sel # {} =>
             /\ \E i \in Sel : df[i].flux = f
             /\ \A i \in Sel : ~df[i].flux.nan => (~f.nan /\ f.v >= df[i].flux.v)

\* C2: detect_flux selects exactly the rows with w - t < x < w + t (rows at
\* w - t or w + t are not selected); with a row selected the result is the
\* maximum flux among the selected rows, with none it is the missing marker.
C2_DetectFlux ==
    li >= 1 =>
        /\ DetectedAsSpecified(df1, lines[li].wl, f1)
        /\ DetectedAsSpecified(df2, lines[li].wl, f2)

\* C2 witness: the first table has a row exactly at w - t with the larger
\* flux and a row inside the window; the detected flux is the inner row's.
C2_Witness ==
    /\ li >= 1
    /\ \E i, j \in 1..Len(df1) :
         /\ df1[i].wl = lines[li].wl - Tol
         /\ j \in InWindow(df1, lines[li].wl)
         /\ Gt(df1[i].flux, df1[j].flux)
         /\ f1 = df1[j].flux
    /\ \E i \in 1..Len(df2) : df2[i].wl = lines[li].wl + Tol
    /\ f2.nan

\* C5: the stage emits exactly one row per catalog entry, in catalog order,
\* and always runs to completion; an empty selection is carried as data.
C5_OneRowPerLine ==
    /\ Len(rows) = li
    /\ \A i \in 1..Len(rows) :
         rows[i].Line = lines[i].name /\ rows[i].Wavelength = lines[i].wl
    /\ tpc = "done" =>
         /\ Len(line_table) = Len(lines)
         /\ \A i \in 1..Len(lines) : line_table[i].Line = lines[i].name
    /\ tpc # "done" => ENABLED TabNext

\* C5 witness: the stage has finished with no line detected in either table.
C5_Witness ==
    /\ tpc = "done"
    /\ Len(line_table) = Len(lines)
    /\ \A i \in 1..Len(line_table) :
         line_table[i].Region1Flux = EmDash /\ line_table[i].Region2Flux = EmDash

\* the field is the rendering of f the claim C6 asks for
RenderedAsSpecified(field, f) ==
    /\ (field = EmDash) <=> f.nan
    /\ ~f.nan => (IsFixed2(field) /\ ParseFixed2(field) = f.v)
    /\ field # <<"n", "a", "n">>
    /\ field # <<"N", "a", "N">>

\* C6: a flux field is the em dash exactly when the detected flux is missing,
\* otherwise the flux as a decimal with two digits after the point; it is
\* never a "nan" string.
C6_FluxFields ==
    li >= 1 =>
        /\ RenderedAsSpecified(rows[li].Region1Flux, f1)
        /\ RenderedAsSpecified(rows[li].Region2Flux, f2)

\* C6 witness: a row with a negative flux rendered "-1.50" and a missing one
\* rendered as the em dash.
C6_Witness ==
    /\ li >= 1
    /\ f1 = Num(-150)
    /\ rows[li].Region1Flux = <<"-", "1", ".", "5", "0">>
    /\ f2.nan
    /\ rows[li].Region2Flux = EmDash

\* C10 as claimed: the em dash is shown exactly when the table has no row in
\* the window; with a row in the window the field is a number, the flux of
\* a row of the window and not below any present flux of the window.
DashIffNoRow(df, w, field) ==
    /\ (field = EmDash) <=> (InWindow(df, w) = {})
    /\ InWindow(df, w) # {} =>
         /\ IsFixed2(field)
         /\ \E i \in ValidInWindow(df, w) : df[i].flux.v = ParseFixed2(field)
         /\ \A i \in ValidInWindow(df, w) : df[i].flux.v <= ParseFixed2(field)

C10_Original ==
    li >= 1 =>
        /\ DashIffNoRow(df1, lines[li].wl, rows[li].Region1Flux)
        /\ DashIffNoRow(df2, lines[li].wl, rows[li].Region2Flux)

\* C10 amended: the em dash is shown exactly when the table has no row in
\* the window with a present flux; with such a row the field is a number,
\* the flux of a row of the window and not below any present flux of it.
DashIffNoValidRow(df, w, field) ==
    /\ (field = EmDash) <=> (ValidInWindow(df, w) = {})
    /\ ValidInWindow(df, w) # {} =>
         /\ IsFixed2(field)
         /\ \E i \in ValidInWindow(df, w) : df[i].flux.v = ParseFixed2(field)
         /\ \A i \in ValidInWindow(df, w) : df[i].flux.v <= ParseFixed2(field)

C10_DashIffNoValidRow ==
    li >= 1 =>
        /\ DashIffNoValidRow(df1, lines[li].wl, rows[li].Region1Flux)
        /\ DashIffNoValidRow(df2, lines[li].wl, rows[li].Region2Flux)

\* C10 witness: every row of the first table's window has a missing flux and
\* the field is the em dash; the second table's window mixes a missing and a
\* present flux and shows the present one.
C10_Witness ==
    /\ li >= 1
    /\ InWindow(df1, lines[li].wl) # {}
    /\ ValidInWindow(df1, lines[li].wl) = {}
    /\ rows[li].Region1Flux = EmDash
    /\ ValidInWindow(df2, lines[li].wl) # {}
    /\ ValidInWindow(df2, lines[li].wl) # InWindow(df2, lines[li].wl)
    /\ rows[li].Region2Flux = <<"4", ".", "5", "0">>

====
